---- MODULE Spec2Model ----
(***************************************************************************)
(* A model of the QR code generator service: the POST /generate handler    *)
(* of its three builds (src/main.go, the -addr build src/unnamed/part_001  *)
(* and the file-backed build src/unnamed/part_002), the in-memory and      *)
(* file-backed watermark pipelines, and net/http's ResponseWriter.         *)
(*                                                                         *)
(* Byte strings are records [fmt, len, img]: fmt is what the bytes are     *)
(* ("png", "badpng", "text", "json", "empty"), len their length and img    *)
(* the raster a PNG decoder reads out of them.  Rasters are symbolic:      *)
(* a QR symbol, a watermark (id names the picture, from its dimensions as  *)
(* uploaded, w and h its present dimensions), or a composite of two        *)
(* rasters; Pixel reads one pixel out of a raster.                         *)
(***************************************************************************)
EXTENDS Integers, Sequences, FiniteSets, TLC

VARIABLES
    variant,       \* which build serves: "main", "addr" or "file"
    req,           \* per request: inputs, locals, handler position, response
    watermarkFile, \* contents of uploads/watermark.png (file-backed build)
    qrcodeFile     \* contents of data/qrcode.png (file-backed build)

vars == <<variant, req, watermarkFile, qrcodeFile>>

\* ---------------------------------------------------------------- bounds

NumRequests == 2

Requests == 1..NumRequests

\* ------------------------------------------------------- program constants

MAX_UPLOAD_SIZE == 1048576

WATERMARK_WIDTH == 64

\* The literal 32 of the centring offset.
HalfWatermark == 32

\* Byte capacity of the largest QR symbol (version 40) at level Medium.
QRMaxContent == 2331

\* Side, in modules, of the smallest QR symbol with its quiet zone (21 + 2*4).
QRRealSize == 29

StatusOK == 200

Variants == {"main", "addr", "file"}

\* --------------------------------------------------------------- integers

\* Go's integer division truncates toward zero.
GoDiv(a, b) == IF a >= 0 THEN a \div b ELSE -((-a) \div b)

Digits == <<"0", "1", "2", "3", "4", "5", "6", "7", "8", "9">>

IsDigit(c) == \E d \in 1..10 : Digits[d] = c

DigitVal(c) == (CHOOSE d \in 1..10 : Digits[d] = c) - 1

RECURSIVE ParseDigits(_, _)
ParseDigits(s, acc) ==
    IF s = <<>> THEN acc
    ELSE ParseDigits(Tail(s), acc * 10 + DigitVal(Head(s)))

\* strconv.Atoi on a string given as a sequence of characters: an optional
\* sign, then one or more decimal digits; anything else is an error.
Atoi(s) ==
    LET signed == s # <<>> /\ Head(s) \in {"+", "-"}
        body   == IF signed THEN Tail(s) ELSE s
    IN  IF body = <<>> \/ \E i \in 1..Len(body) : ~IsDigit(body[i])
        THEN [err |-> TRUE, n |-> 0]
        ELSE [err |-> FALSE,
              n   |-> IF signed /\ Head(s) = "-"
                      THEN -ParseDigits(body, 0)
                      ELSE ParseDigits(body, 0)]

\* ------------------------------------------------------- rasters and bytes

NoImage == [kind |-> "none", w |-> 0, h |-> 0]

NoBytes == [fmt |-> "empty", len |-> 0, img |-> NoImage]

\* The pixel a raster holds at (x, y); "outside" beyond its bounds.  A
\* composite holds the watermark's pixel where the watermark, moved by the
\* offset, covers (x, y) with an opaque pixel, and the base's pixel elsewhere
\* (draw.Src of the base, then draw.Over of the watermark).
RECURSIVE Pixel(_, _, _)
Pixel(img, x, y) ==
    IF ~(0 <= x /\ x < img.w /\ 0 <= y /\ y < img.h) THEN [of |-> "outside"]
    ELSE CASE img.kind = "qr" ->
                [of |-> "qr", content |-> img.content, side |-> img.w,
                 x |-> x, y |-> y]
           [] img.kind = "watermark" ->
                [of |-> "watermark", id |-> img.id, from |-> img.from,
                 w |-> img.w, h |-> img.h, x |-> x, y |-> y]
           [] img.kind = "composite" ->
                LET wx == x - img.offset[1]
                    wy == y - img.offset[2]
                IN  IF /\ 0 <= wx /\ wx < img.over.w
                       /\ 0 <= wy /\ wy < img.over.h
                       /\ img.over.opaque
                    THEN Pixel(img.over, wx, wy)
                    ELSE Pixel(img.base, x, y)

\* png.Encode: an image with no pixels is refused and nothing is written.
PngEncode(img) ==
    IF img.w <= 0 \/ img.h <= 0 THEN NoBytes
    ELSE [fmt |-> "png", len |-> img.w * img.h, img |-> img]

\* png.Decode: the raster, or an error for bytes that are no complete PNG.
PngDecode(b) ==
    IF b.fmt = "png" THEN [err |-> FALSE, text |-> "", img |-> b.img]
    ELSE [err |-> TRUE, img |-> NoImage,
          text |-> IF b.fmt \in {"empty", "badpng"} THEN "unexpected EOF"
                   ELSE "png: invalid format: not a PNG file"]

\* http.DetectContentType: the PNG signature gives image/png, also when the
\* rest of the file is damaged; text, JSON and no bytes give text/plain.
DetectContentType(b) ==
    IF b.fmt \in {"png", "badpng"} THEN "image/png"
    ELSE "text/plain; charset=utf-8"

\* resize.Resize(width, 0, img, resize.Lanczos3): the height follows the
\* aspect ratio, uint(0.7 + oldHeight / (oldWidth / width)); an image that
\* already has the wanted size, or has no pixels, is returned as it is.
Resize(width, img) ==
    LET height == (7 * img.w + 10 * img.h * width) \div (10 * img.w)
    IN  IF img.w <= 0 \/ img.h <= 0 THEN img
        ELSE IF width = img.w /\ height = img.h THEN img
        ELSE [img EXCEPT !.w = width, !.h = height]

\* -------------------------------------------------------------- QR encoder

\* qrcode.Encode(content, qrcode.Medium, size): content beyond the capacity of
\* the largest symbol is an error; a negative size asks for -size pixels per
\* module, and a size too small for the symbol is raised to the symbol's size.
Encode(content, size) ==
    LET scaled == IF size < 0 THEN size * (-1) * QRRealSize ELSE size
        side   == IF scaled < QRRealSize THEN QRRealSize ELSE scaled
    IN  IF Len(content) > QRMaxContent
        THEN [err |-> TRUE, text |-> "content too long to encode", png |-> NoBytes]
        ELSE [err |-> FALSE, text |-> "",
              png |-> PngEncode([kind |-> "qr", content |-> content,
                                 w |-> side, h |-> side])]

\* simpleQRCode.Generate
Generate(content, size) ==
    LET e == Encode(content, size)
    IN  IF e.err
        THEN [err |-> TRUE, text |-> "could not generate a QR code: " \o e.text,
              png |-> NoBytes]
        ELSE e

\* ----------------------------------------------------------- ResponseWriter

NewResponse ==
    [wroteHeader |-> FALSE, status |-> 0, header |-> "", contentType |-> "",
     body |-> <<>>]

\* writer.Header().Add("Content-Type", v)
HeaderAdd(w, v) == IF w.wroteHeader THEN w ELSE [w EXCEPT !.header = v]

\* writer.WriteHeader(code): only the first call sets the status; a later one
\* is logged as superfluous and changes nothing.
WriteHeader(w, code) ==
    IF w.wroteHeader THEN w
    ELSE [w EXCEPT !.wroteHeader = TRUE, !.status = code]

\* writer.Write(data): sends the header with status 200 when none was sent;
\* the first chunk fixes the Content-Type, sniffed when the handler set none.
Write(w, data) ==
    LET sent == WriteHeader(w, StatusOK)
        ct   == IF w.body # <<>> THEN w.contentType
                ELSE IF w.header # "" THEN w.header
                ELSE DetectContentType(data)
    IN  [sent EXCEPT !.body = Append(@, data), !.contentType = ct]

\* json.Marshal of the map {"error": text}.
Marshal(text) ==
    [fmt |-> "json", len |-> 12 + Len(text), img |-> NoImage, error |-> text]

\* createErrorResponse of src/main.go
createErrorResponse(message) == Marshal(message)

\* buildErrorResponse of the -addr build
buildErrorResponse(message) == Marshal(message)

\* createErrorResponse of the file-backed build: resp["error"] is set to a
\* fixed text and the message parameter is not read.
createErrorResponseFile(message) == Marshal("Only PNG files are supported.")

\* The error-response builder of build v.
ErrorResponse(v, message) ==
    CASE v = "main" -> createErrorResponse(message)
      [] v = "addr" -> buildErrorResponse(message)
      [] v = "file" -> createErrorResponseFile(message)

\* ------------------------------------------------------------------ inputs

RECURSIVE Repeat(_, _)
Repeat(s, n) == IF n = 0 THEN "" ELSE s \o Repeat(s, n - 1)

\* A url beyond the capacity of any QR symbol.
LongURL == Repeat("0123456789", 240)

Sizes == {<<>>, <<"x">>, <<"0">>, <<"-", "5">>, <<"4", "0">>, <<"2", "5", "6">>}

WatermarkPNG(id, w, h, opaque, len) ==
    [fmt |-> "png", len |-> len,
     img |-> [kind |-> "watermark", id |-> id, from |-> <<w, h>>,
              w |-> w, h |-> h, opaque |-> opaque]]

\* The watermark field of a request: absent; unreachable because the body is
\* no multipart form (FormFile answers ErrNotMultipart); or an uploaded file,
\* which reads to the end or fails while being read.
Absent == [kind |-> "absent", readable |-> FALSE, bytes |-> NoBytes]

NotMultipart == [kind |-> "notMultipart", readable |-> FALSE, bytes |-> NoBytes]

Upload(b) == [kind |-> "file", readable |-> TRUE, bytes |-> b]

Unreadable(b) == [kind |-> "file", readable |-> FALSE, bytes |-> b]

Text == [fmt |-> "text", len |-> 11, img |-> NoImage]

BadPNG == [fmt |-> "badpng", len |-> 100, img |-> NoImage]

Logo == WatermarkPNG("logo", 128, 128, TRUE, 5000)

Tall == WatermarkPNG("tall", 100, 200, TRUE, 7000)

Clear == WatermarkPNG("clear", 64, 64, FALSE, 900)

\* Resized to 64 x 384: taller than any QR image requested here.
Tower == WatermarkPNG("tower", 100, 600, TRUE, 9000)

Huge == WatermarkPNG("huge", 2000, 2000, TRUE, 2 * MAX_UPLOAD_SIZE)

WatermarkFields ==
    {Absent, NotMultipart, Unreadable(Text)}
    \cup {Upload(b) : b \in {Text, BadPNG, NoBytes, Logo, Tall, Clear, Tower, Huge}}

\* The requests the clients send: every size with and without a watermark,
\* every watermark field at one size, a missing and an overlong url, and a
\* second url to tell the requests' QR symbols apart.
Inputs ==
    {[url |-> u, size |-> <<"2", "5", "6">>, field |-> f] :
        u \in {"", LongURL}, f \in {Absent, Upload(Logo)}}
    \cup {[url |-> "a", size |-> s, field |-> f] :
        s \in Sizes, f \in {Absent, Upload(Logo), Upload(Tall)}}
    \cup {[url |-> "a", size |-> <<"2", "5", "6">>, field |-> f] :
        f \in WatermarkFields}
    \cup {[url |-> "b", size |-> <<"2", "5", "6">>, field |-> f] :
        f \in {Absent, Upload(Logo), Upload(Text)}}

\* ------------------------------------------------------------------- state

\* A request before it arrives.
NoRequest ==
    [pc |-> "idle", url |-> "", size |-> <<>>,
     field |-> Absent,
     qrCodeSize |-> 0,            \* handleRequest's qrCodeSize
     watermark |-> NoBytes,       \* handleRequest's watermark buffer
     decodedImage |-> NoImage,    \* resizeWatermarkImage's decodedImage
     originalImage |-> NoImage,   \* addWatermark's decoded QR code
     m |-> NoImage,               \* addWatermark's output raster
     w |-> NewResponse,           \* the ResponseWriter
     \* What an observer of the handler records:
     outcome |-> "",              \* the return taken: "error", "success", "aborted"
     returned |-> NoBytes,        \* what Generate(WithWatermark) returned
     log |-> <<>>,                \* the stages run, each with its result
     encoderSizes |-> {},         \* the sizes the QR encoder was called with
     copied |-> 0]                \* watermark bytes copied by the upload

Init ==
    /\ variant \in Variants
    /\ req = [r \in Requests |-> NoRequest]
    /\ watermarkFile = NoBytes
    /\ qrcodeFile = NoBytes

Stage(q, stage, ok) ==
    [q EXCEPT !.log = Append(@, [stage |-> stage, ok |-> ok])]

\* An error return of handleRequest: the JSON body is written, then the
\* status is set.
RespondError(q, message) ==
    [q EXCEPT !.w = WriteHeader(Write(@, ErrorResponse(variant, message)), 400),
              !.outcome = "error",
              !.pc = "done"]

\* The client sends a request.
Receive(r) ==
    /\ req[r].pc = "idle"
    /\ \E i \in Inputs :
          req' = [req EXCEPT ![r] = [@ EXCEPT !.pc = "handle", !.url = i.url,
                                              !.size = i.size, !.field = i.field]]
    /\ UNCHANGED <<variant, watermarkFile, qrcodeFile>>

RECURSIVE Join(_)
Join(s) == IF s = <<>> THEN "" ELSE Head(s) \o Join(Tail(s))

\* The text of the *strconv.NumError of Atoi.
AtoiError(s) == "strconv.Atoi: parsing \"" \o Join(s) \o "\": invalid syntax"

\* handleRequest up to the watermark lookup (the same in the three builds):
\* ParseMultipartForm, whose result is the request's fields, the checks of
\* url and size, FormFile, and the answer with the plain QR code when FormFile
\* reports http.ErrMissingFile.  Any other result of FormFile goes on to the
\* upload.
handleRequest(r) ==
    LET q == req[r]
        a == Atoi(q.size)
        g == Generate(q.url, a.n)
        sized == [q EXCEPT !.qrCodeSize = a.n]
        called == [Stage(sized, "validate", TRUE)
                     EXCEPT !.encoderSizes = @ \cup {a.n}]
    IN  /\ q.pc = "handle"
        /\ req' = [req EXCEPT ![r] =
              IF q.url = ""
              THEN RespondError(Stage(q, "validate", FALSE),
                     "Could not determine the desired QR code content.")
              ELSE IF a.err \/ q.size = <<>>
              THEN RespondError(Stage(q, "validate", FALSE),
                     "Could not determine the desired QR code size:"
                        \o AtoiError(q.size))
              ELSE IF q.field.kind = "absent"
              THEN IF g.err
                   THEN RespondError(Stage(called, "generate", FALSE),
                          "Could not generate QR code. " \o g.text)
                   ELSE [Stage(called, "generate", TRUE)
                           EXCEPT !.w = Write(HeaderAdd(@, "image/png"), g.png),
                                  !.returned = g.png,
                                  !.outcome = "success",
                                  !.pc = "done"]
              ELSE [Stage(sized, "validate", TRUE) EXCEPT !.pc = "upload"]]
        /\ UNCHANGED <<variant, watermarkFile, qrcodeFile>>

\* The panic of a handler goroutine: net/http recovers it and closes the
\* connection; the client reads no response.
Abort(q) == [q EXCEPT !.outcome = "aborted", !.pc = "done"]

\* ------------------------------------------------------ in-memory pipeline

\* addWatermark with the output raster allocated from the watermark's shifted
\* bounds instead of the QR code's bounds.
addWatermarkGrown(qrCode, watermarkData, size) ==
    LET base   == PngDecode(qrCode)
        over   == PngDecode(watermarkData)
        offset == <<GoDiv(size, 2) - HalfWatermark, GoDiv(size, 2) - HalfWatermark>>
        m      == [kind |-> "composite",
                   w |-> offset[1] + over.img.w, h |-> offset[2] + over.img.h,
                   base |-> base.img, over |-> over.img, offset |-> offset]
    IN  IF base.err \/ over.err
        THEN [err |-> TRUE, png |-> NoBytes, text |-> "could not decode"]
        ELSE [err |-> FALSE, text |-> "", png |-> PngEncode(m)]

\* simpleQRCode.addWatermark of the in-memory builds.
addWatermark(qrCode, watermarkData, size) ==
    LET base   == PngDecode(qrCode)
        over   == PngDecode(watermarkData)
        offset == <<GoDiv(size, 2) - HalfWatermark, GoDiv(size, 2) - HalfWatermark>>
        m      == [kind |-> "composite", w |-> base.img.w, h |-> base.img.h,
                   base |-> base.img, over |-> over.img, offset |-> offset]
    IN  IF base.err
        THEN [err |-> TRUE, png |-> NoBytes,
              text |-> "could not decode QR code: " \o base.text]
        ELSE IF over.err
        THEN [err |-> TRUE, png |-> NoBytes,
              text |-> "could not decode watermark: " \o over.text]
        ELSE [err |-> FALSE, text |-> "", png |-> PngEncode(m)]

\* simpleQRCode.GenerateWithWatermark of the in-memory builds.
GenerateWithWatermark(content, size, watermark) ==
    LET g == Generate(content, size)
        a == addWatermark(g.png, watermark, size)
    IN  IF g.err THEN g
        ELSE IF a.err
        THEN [err |-> TRUE, png |-> NoBytes,
              text |-> "could not add watermark to QR code: " \o a.text]
        ELSE a

\* resizeWatermark
resizeWatermark(watermark, width) ==
    LET d == PngDecode(watermark)
    IN  IF d.err
        THEN [err |-> TRUE, png |-> NoBytes]
        ELSE [err |-> FALSE, png |-> PngEncode(Resize(width, d.img))]

\* uploadWatermarkImage (uploadFile) and the handler's check of its result.
\* After a failed lookup the file is nil and io.Copy panics on reading it.
uploadWatermarkImage(r) ==
    LET q == req[r]
    IN  /\ q.pc = "upload"
        /\ variant # "file"
        /\ req' = [req EXCEPT ![r] =
              IF q.field.kind # "file"
              THEN Abort(Stage(q, "upload", FALSE))
              ELSE IF ~q.field.readable
              THEN RespondError(Stage(q, "upload", FALSE),
                     IF variant = "main"
                     THEN "Could not upload the watermark image."
                     ELSE "Could not upload the watermark image."
                            \o "could not upload file. unexpected EOF")
              ELSE [Stage(q, "upload", TRUE)
                      EXCEPT !.watermark = q.field.bytes,
                             !.copied = q.field.bytes.len,
                             !.pc = "sniff"]]
        /\ UNCHANGED <<variant, watermarkFile, qrcodeFile>>

\* The content-type check.  src/main.go sniffs the buffer and tests the err of
\* the upload, which is nil here; the -addr build tests the sniffed label; the
\* file-backed build reads the first 512 bytes of uploads/watermark.png and
\* tests only whether that read failed (an empty file reads io.EOF).
checkContentType(r) ==
    LET q == req[r]
        contentType == DetectContentType(q.watermark)
    IN  /\ q.pc = "sniff"
        /\ req' = [req EXCEPT ![r] =
              CASE variant = "main" ->
                     [Stage(q, "sniff", TRUE) EXCEPT !.pc = "resize"]
                [] variant = "addr" ->
                     IF contentType # "image/png"
                     THEN RespondError(Stage(q, "sniff", FALSE),
                            "Provided watermark image is a %!s(<nil>) not a PNG. "
                               \o contentType \o ".")
                     ELSE [Stage(q, "sniff", TRUE) EXCEPT !.pc = "resize"]
                [] variant = "file" ->
                     IF watermarkFile.len = 0
                     THEN RespondError(Stage(q, "sniff", FALSE),
                            "Provided watermark image is not a PNG image. "
                               \o "could not read file: EOF. Content type is: ")
                     ELSE [Stage(q, "sniff", TRUE) EXCEPT !.pc = "resize"]]
        /\ UNCHANGED <<variant, watermarkFile, qrcodeFile>>

\* The resize step of the in-memory builds.
resizeStep(r) ==
    LET q == req[r]
        z == resizeWatermark(q.watermark, WATERMARK_WIDTH)
    IN  /\ q.pc = "resize"
        /\ variant # "file"
        /\ req' = [req EXCEPT ![r] =
              IF z.err
              THEN RespondError(Stage(q, "resize", FALSE),
                     "Could not resize the watermark image.")
              ELSE [Stage(q, "resize", TRUE)
                      EXCEPT !.watermark = z.png, !.pc = "generate"]]
        /\ UNCHANGED <<variant, watermarkFile, qrcodeFile>>

\* The last step of the in-memory builds: the watermarked code is generated
\* and written.  Only the -addr build sets the Content-Type here.
generateStep(r) ==
    LET q == req[r]
        g == GenerateWithWatermark(q.url, q.qrCodeSize, q.watermark)
        called == [q EXCEPT !.encoderSizes = @ \cup {q.qrCodeSize}]
    IN  /\ q.pc = "generate"
        /\ variant # "file"
        /\ req' = [req EXCEPT ![r] =
              IF g.err
              THEN RespondError(Stage(called, "generate", FALSE),
                     IF variant = "main"
                     THEN "Could not generate QR code with the provided watermark image: "
                            \o g.text
                     ELSE "Could not generate QR code with the watermark image. "
                            \o g.text)
              ELSE [Stage(called, "generate", TRUE)
                      EXCEPT !.w = Write(IF variant = "addr"
                                         THEN HeaderAdd(@, "image/png") ELSE @,
                                         g.png),
                             !.returned = g.png,
                             !.outcome = "success",
                             !.pc = "done"]]
        /\ UNCHANGED <<variant, watermarkFile, qrcodeFile>>

\* ----------------------------------------------------- file-backed pipeline
\* Every step below reads or writes uploads/watermark.png or data/qrcode.png,
\* the two paths all requests share; os.Create and os.WriteFile truncate the
\* file before the new bytes are written.

GenerateFailed == "Could not generate QR code with the provided watermark image."

\* uploadWatermarkImage: os.Create(WATERMARK_FILENAME)
uploadCreate(r) ==
    /\ req[r].pc = "upload"
    /\ variant = "file"
    /\ watermarkFile' = NoBytes
    /\ req' = [req EXCEPT ![r].pc = "uploadCopy"]
    /\ UNCHANGED <<variant, qrcodeFile>>

\* uploadWatermarkImage: io.Copy(dst, file), and the handler's check.  After
\* a failed lookup the file is nil and io.Copy panics on reading it.
uploadCopy(r) ==
    LET q == req[r]
    IN  /\ q.pc = "uploadCopy"
        /\ IF q.field.kind # "file"
           THEN /\ req' = [req EXCEPT ![r] = Abort(Stage(q, "upload", FALSE))]
                /\ UNCHANGED watermarkFile
           ELSE IF ~q.field.readable
           THEN /\ req' = [req EXCEPT ![r] =
                             RespondError(Stage(q, "upload", FALSE), GenerateFailed)]
                /\ UNCHANGED watermarkFile
           ELSE /\ req' = [req EXCEPT ![r] =
                             [Stage(q, "upload", TRUE)
                                EXCEPT !.copied = q.field.bytes.len,
                                       !.pc = "sniff"]]
                /\ watermarkFile' = q.field.bytes
        /\ UNCHANGED <<variant, qrcodeFile>>

\* resizeWatermarkImage: os.Open and png.Decode.  The handler drops the error
\* the function returns and goes on to GenerateWithWatermark.
resizeOpen(r) ==
    LET q == req[r]
        d == PngDecode(watermarkFile)
    IN  /\ q.pc = "resize"
        /\ variant = "file"
        /\ req' = [req EXCEPT ![r] =
              IF d.err
              THEN [Stage(q, "resize", FALSE) EXCEPT !.pc = "generate"]
              ELSE [q EXCEPT !.decodedImage = d.img, !.pc = "resizeCreate"]]
        /\ UNCHANGED <<variant, watermarkFile, qrcodeFile>>

\* resizeWatermarkImage: resize.Resize and os.Create(WATERMARK_FILENAME)
resizeCreate(r) ==
    /\ req[r].pc = "resizeCreate"
    /\ watermarkFile' = NoBytes
    /\ req' = [req EXCEPT ![r].pc = "resizeEncode"]
    /\ UNCHANGED <<variant, qrcodeFile>>

\* resizeWatermarkImage: png.Encode(resizedImage, m)
resizeEncode(r) ==
    LET q == req[r]
    IN  /\ q.pc = "resizeEncode"
        /\ watermarkFile' = PngEncode(Resize(WATERMARK_WIDTH, q.decodedImage))
        /\ req' = [req EXCEPT ![r] =
                     [Stage(q, "resize", TRUE) EXCEPT !.pc = "generate"]]
        /\ UNCHANGED <<variant, qrcodeFile>>

\* GenerateWithWatermark: qrcode.WriteFile encodes the symbol and opens
\* data/qrcode.png for writing, truncating it.
writeFileCreate(r) ==
    LET q == req[r]
        e == Encode(q.url, q.qrCodeSize)
        called == [q EXCEPT !.encoderSizes = @ \cup {q.qrCodeSize}]
    IN  /\ q.pc = "generate"
        /\ variant = "file"
        /\ IF e.err
           THEN /\ req' = [req EXCEPT ![r] =
                             RespondError(Stage(called, "generate", FALSE),
                                          GenerateFailed)]
                /\ UNCHANGED qrcodeFile
           ELSE /\ req' = [req EXCEPT ![r] = [called EXCEPT !.pc = "writeFile"]]
                /\ qrcodeFile' = NoBytes
        /\ UNCHANGED <<variant, watermarkFile>>

\* GenerateWithWatermark: qrcode.WriteFile writes the symbol.
writeFileWrite(r) ==
    LET q == req[r]
    IN  /\ q.pc = "writeFile"
        /\ qrcodeFile' = Encode(q.url, q.qrCodeSize).png
        /\ req' = [req EXCEPT ![r] =
                     [Stage(q, "generate", TRUE) EXCEPT !.pc = "openQRCode"]]
        /\ UNCHANGED <<variant, watermarkFile>>

\* addWatermark: os.Open(QRCODE_FILENAME) and png.Decode
openQRCode(r) ==
    LET q == req[r]
        d == PngDecode(qrcodeFile)
    IN  /\ q.pc = "openQRCode"
        /\ req' = [req EXCEPT ![r] =
              IF d.err
              THEN RespondError(Stage(q, "composite", FALSE), GenerateFailed)
              ELSE [q EXCEPT !.originalImage = d.img, !.pc = "openWatermark"]]
        /\ UNCHANGED <<variant, watermarkFile, qrcodeFile>>

\* addWatermark: os.Open(WATERMARK_FILENAME), png.Decode and the two draws
openWatermark(r) ==
    LET q == req[r]
        d == PngDecode(watermarkFile)
        offset == <<GoDiv(q.qrCodeSize, 2) - HalfWatermark,
                    GoDiv(q.qrCodeSize, 2) - HalfWatermark>>
    IN  /\ q.pc = "openWatermark"
        /\ req' = [req EXCEPT ![r] =
              IF d.err
              THEN RespondError(Stage(q, "composite", FALSE), GenerateFailed)
              ELSE [q EXCEPT !.m = [kind |-> "composite",
                                    w |-> q.originalImage.w,
                                    h |-> q.originalImage.h,
                                    base |-> q.originalImage,
                                    over |-> d.img, offset |-> offset],
                             !.pc = "createQRCode"]]
        /\ UNCHANGED <<variant, watermarkFile, qrcodeFile>>

\* addWatermark: os.Create(QRCODE_FILENAME)
createQRCode(r) ==
    /\ req[r].pc = "createQRCode"
    /\ qrcodeFile' = NoBytes
    /\ req' = [req EXCEPT ![r].pc = "encodeQRCode"]
    /\ UNCHANGED <<variant, watermarkFile>>

\* addWatermark: png.Encode(out, m)
encodeQRCode(r) ==
    LET q == req[r]
    IN  /\ q.pc = "encodeQRCode"
        /\ qrcodeFile' = PngEncode(q.m)
        /\ req' = [req EXCEPT ![r] =
                     [Stage(q, "composite", TRUE) EXCEPT !.pc = "readFile"]]
        /\ UNCHANGED <<variant, watermarkFile>>

\* GenerateWithWatermark: os.ReadFile(QRCODE_FILENAME), and the handler's
\* writer.Write(fileData)
readFile(r) ==
    LET q == req[r]
    IN  /\ q.pc = "readFile"
        /\ req' = [req EXCEPT ![r] =
                     [q EXCEPT !.w = Write(@, qrcodeFile),
                               !.returned = qrcodeFile,
                               !.outcome = "success",
                               !.pc = "done"]]
        /\ UNCHANGED <<variant, watermarkFile, qrcodeFile>>

Next ==
    \E r \in Requests :
        \/ Receive(r)
        \/ handleRequest(r)
        \/ uploadWatermarkImage(r)
        \/ checkContentType(r)
        \/ resizeStep(r)
        \/ generateStep(r)
        \/ uploadCreate(r)
        \/ uploadCopy(r)
        \/ resizeOpen(r)
        \/ resizeCreate(r)
        \/ resizeEncode(r)
        \/ writeFileCreate(r)
        \/ writeFileWrite(r)
        \/ openQRCode(r)
        \/ openWatermark(r)
        \/ createQRCode(r)
        \/ encodeQRCode(r)
        \/ readFile(r)

Spec == Init /\ [][Next]_vars

\* ------------------------------------------------------------------ claims

Done(r) == req[r].pc = "done"

\* The response body is exactly one JSON error object.
ErrorBodyOnly(r) ==
    /\ Len(req[r].w.body) = 1
    /\ req[r].w.body[1].fmt = "json"

\* The integer the handler reads out of the size field.
SizeOf(r) == Atoi(req[r].size).n

\* The request passes the url and size checks of the handler.
ValidFields(r) ==
    /\ req[r].url # ""
    /\ ~Atoi(req[r].size).err

\* The request uploads a watermark file that is read to its end.
Uploaded(r) == req[r].field.kind = "file" /\ req[r].field.readable

\* C1: every request that fails at a stage of handleRequest is answered with
\* status 400 and the JSON error body, never with status 200.
C1_FailureIs400 ==
    \A r \in Requests :
        req[r].outcome = "error" =>
            /\ req[r].w.status = 400
            /\ ErrorBodyOnly(r)

\* C2: a request without a watermark field gets the plain QR code, and a
\* request whose watermark lookup fails with another error than
\* ErrMissingFile gets an error response and never reaches the upload stage.
C2_LookupErrorSurfaced ==
    \A r \in Requests :
        /\ (Done(r) /\ ValidFields(r) /\ req[r].field.kind = "absent"
                /\ ~Generate(req[r].url, SizeOf(r)).err)
              => req[r].w.body = <<Generate(req[r].url, SizeOf(r)).png>>
        /\ req[r].field.kind = "notMultipart"
              => /\ req[r].pc \notin {"upload", "uploadCopy"}
                 /\ \A i \in 1..Len(req[r].log) : req[r].log[i].stage # "upload"
                 /\ Done(r) => req[r].outcome = "error" /\ ErrorBodyOnly(r)

\* What a request's own url, size and watermark bytes give.
OwnImage(r) ==
    GenerateWithWatermark(req[r].url, SizeOf(r),
        resizeWatermark(req[r].field.bytes, WATERMARK_WIDTH).png).png

\* C3: under every interleaving, the image a request with a watermark is
\* answered with is made of that request's own url, size and watermark.
C3_RequestsIndependent ==
    \A r \in Requests :
        (req[r].outcome = "success" /\ Uploaded(r))
            => req[r].w.body = <<OwnImage(r)>>

\* C4: a size that is no positive integer is rejected with an error response
\* before the QR encoder is called; the encoder only sees sizes >= 1.
C4_SizePositive ==
    \A r \in Requests :
        /\ \A n \in req[r].encoderSizes : n >= 1
        /\ (Done(r) /\ req[r].url # "" /\ (Atoi(req[r].size).err \/ SizeOf(r) < 1))
              => req[r].outcome = "error" /\ req[r].encoderSizes = {}

\* C5: a request whose uploaded watermark does not sniff as image/png is
\* answered with an error response, never with image bytes, in every build.
C5_NonPNGRejected ==
    \A r \in Requests :
        (Done(r) /\ Uploaded(r)
              /\ DetectContentType(req[r].field.bytes) # "image/png")
            => /\ req[r].outcome = "error"
               /\ \A i \in 1..Len(req[r].w.body) : req[r].w.body[i].fmt = "json"

\* C6: for a valid PNG watermark of any dimensions and any (positive) size,
\* the output has the dimensions of the base QR image, and its pixel at
\* (size/2, size/2) is the centre pixel (width/2, height/2) of the resized
\* watermark whenever that pixel is opaque.
C6_WatermarkCentred ==
    \A r \in Requests :
        (req[r].outcome = "success" /\ Uploaded(r) /\ SizeOf(r) >= 1
              /\ ~PngDecode(req[r].field.bytes).err)
            => LET out  == req[r].w.body[1].img
                   base == Generate(req[r].url, SizeOf(r)).png.img
                   over == Resize(WATERMARK_WIDTH, req[r].field.bytes.img)
               IN  /\ out.w = base.w /\ out.h = base.h
                   /\ over.opaque =>
                        Pixel(out, GoDiv(SizeOf(r), 2), GoDiv(SizeOf(r), 2))
                          = Pixel(over, GoDiv(over.w, 2), GoDiv(over.h, 2))

\* C7: a request with a missing or empty url is answered with the error
\* "Could not determine the desired QR code content.": the message handed to
\* the error-response builder is the message in the error field.
C7_ContentMessage ==
    \A r \in Requests :
        (Done(r) /\ req[r].url = "")
            => /\ ErrorBodyOnly(r)
               /\ req[r].w.body[1].error
                    = "Could not determine the desired QR code content."

\* C8: once a stage of a request has failed no later stage of it runs, and no
\* response holds both an error body and image bytes.
C8_ShortCircuit ==
    \A r \in Requests :
        /\ \A i \in 1..Len(req[r].log) :
              ~req[r].log[i].ok => i = Len(req[r].log)
        /\ \A i, j \in 1..Len(req[r].w.body) :
              req[r].w.body[i].fmt = "json" => req[r].w.body[j].fmt = "json"

\* C9: every successful response has status 200, the Content-Type header
\* image/png set by the handler, and exactly the generated bytes as its body.
C9_SuccessResponse ==
    \A r \in Requests :
        req[r].outcome = "success" =>
            /\ req[r].w.status = StatusOK
            /\ req[r].w.header = "image/png"
            /\ req[r].w.body = <<req[r].returned>>

\* C10: a watermark file larger than MAX_UPLOAD_SIZE is rejected and its
\* bytes are never copied in full into memory or to the scratch file.
C10_UploadBounded ==
    \A r \in Requests :
        (Uploaded(r) /\ req[r].field.bytes.len > MAX_UPLOAD_SIZE)
            => /\ req[r].copied <= MAX_UPLOAD_SIZE
               /\ Done(r) => req[r].outcome = "error"

\* One client: request 1 is served alone, by any of the three builds.
NextSingle ==
    \/ Receive(1)
    \/ handleRequest(1)
    \/ uploadWatermarkImage(1)
    \/ checkContentType(1)
    \/ resizeStep(1)
    \/ generateStep(1)
    \/ uploadCreate(1)
    \/ uploadCopy(1)
    \/ resizeOpen(1)
    \/ resizeCreate(1)
    \/ resizeEncode(1)
    \/ writeFileCreate(1)
    \/ writeFileWrite(1)
    \/ openQRCode(1)
    \/ openWatermark(1)
    \/ createQRCode(1)
    \/ encodeQRCode(1)
    \/ readFile(1)

SpecSingle == Init /\ [][NextSingle]_vars

\* addWatermark has produced its output raster for request r.
Composed(r) ==
    IF variant = "file" THEN req[r].m.kind = "composite"
    ELSE req[r].outcome = "success" /\ Uploaded(r)

\* The raster addWatermark produced, the base QR image and the watermark it
\* decoded, and the offset of the claim.
ComposedOut(r) == IF variant = "file" THEN req[r].m ELSE req[r].returned.img

ComposedBase(r) == Encode(req[r].url, req[r].qrCodeSize).png.img

ComposedOver(r) ==
    IF variant = "file" THEN PngDecode(watermarkFile).img
    ELSE PngDecode(req[r].watermark).img

CentreOffset(r) == GoDiv(req[r].qrCodeSize, 2) - HalfWatermark

\* (x, y) lies in the watermark's bounds shifted by the offset.
InFootprint(r, x, y) ==
    /\ CentreOffset(r) <= x /\ x < CentreOffset(r) + ComposedOver(r).w
    /\ CentreOffset(r) <= y /\ y < CentreOffset(r) + ComposedOver(r).h

\* The shifted footprint reaches beyond the base image's bounds.
Clipped(r) ==
    \/ CentreOffset(r) < 0
    \/ CentreOffset(r) + ComposedOver(r).w > ComposedBase(r).w
    \/ CentreOffset(r) + ComposedOver(r).h > ComposedBase(r).h

\* The compositing stage of request r ended with an error.
ComposeFailed(r) ==
    /\ req[r].log # <<>>
    /\ LET last == req[r].log[Len(req[r].log)]
       IN  /\ ~last.ok
           /\ last.stage = (IF variant = "file" THEN "composite" ELSE "generate")

\* C11: the output of addWatermark has the bounds of the base QR image and
\* every output pixel outside the watermark's shifted footprint is the base
\* image's pixel at that position; a footprint that reaches past the base
\* bounds is clipped: the bounds do not grow and no error is returned (the
\* compositing stage fails only when the encoder or a PNG decoder fails).
C11_BaseOutsideFootprint ==
    \A r \in Requests :
        /\ Composed(r) =>
              LET out  == ComposedOut(r)
                  base == ComposedBase(r)
              IN  /\ out.w = base.w /\ out.h = base.h
                  /\ \A x \in 0..(out.w - 1), y \in 0..(out.h - 1) :
                        ~InFootprint(r, x, y) =>
                            Pixel(out, x, y) = Pixel(base, x, y)
        /\ ComposeFailed(r) =>
              \/ Encode(req[r].url, req[r].qrCodeSize).err
              \/ IF variant = "file" THEN PngDecode(watermarkFile).err
                 ELSE PngDecode(req[r].watermark).err

\* A request of a valid size answered with a composite whose watermark is
\* taller than size/2 + 32 and was clipped at the bottom of the base image:
\* the last row under the centre holds the watermark, the corner (0, 0), which
\* lies outside the footprint, holds the QR code.
C11_ClippedWitness ==
    \E r \in Requests :
        /\ req[r].outcome = "success"
        /\ Composed(r)
        /\ SizeOf(r) >= 1
        /\ Clipped(r)
        /\ ComposedOver(r).h > GoDiv(SizeOf(r), 2) + HalfWatermark
        /\ Pixel(ComposedOut(r), GoDiv(SizeOf(r), 2), ComposedBase(r).h - 1).of
              = "watermark"
        /\ ~InFootprint(r, 0, 0)
        /\ Pixel(ComposedOut(r), 0, 0).of = "qr"

====
